---- MODULE Spec2Model ----
\* Persistence layer of the recording tool (openadapt/db/crud.py) and the
\* /scrub route of the dashboard (openadapt/app/dashboard/api/recordings.py).
\*
\* Three specifications share this module's variables:
\*   SpecFilter  filter_stop_sequences, one step per loop iteration
\*   SpecInsert  the insert_* functions, _insert and new_session
\*   SpecRec     scrub_recording, the /scrub route and copy_recording
\* Python indices are kept as the code has them (0-based, negative indices
\* counting from the end); PyGet reads a list the way Python does.
EXTENDS Integers, Sequences, FiniteSets, TLC

VARIABLES
    \* ---- filter_stop_sequences ----
    STOP_SEQUENCES,         \* config.STOP_SEQUENCES, a list of lists of keys
    orig_events,            \* the list as _get returned it (history variable)
    action_events,          \* the list being filtered, modified in place
    stop_sequence_indices,  \* one match position per stop sequence
    sequence_to_remove,     \* index of the sequence to remove, -1 if none
    num_to_remove,          \* number of events to pop
    i,                      \* outer loop variable
    j,                      \* inner loop variable
    pc,                     \* position in filter_stop_sequences
    \* ---- module state of crud.py ----
    db,                     \* the global session (the number of the Session() call that made it)
    session_count,          \* number of Session() calls so far
    open_sessions,          \* sessions created and not closed
    buffers,                \* the five module-level buffers, by name
    executed,               \* rows executed and committed, in order, with the session used
    passed,                 \* rows handed to _insert by calls that returned (history variable)
    calls,                  \* number of calls made
    last_result,            \* how the last call ended
    \* ---- the database and the recording operations ----
    SCRUB_ENABLED,          \* config.SCRUB_ENABLED
    Recording,              \* rows of the recording table
    Screenshot,             \* rows of the screenshot table
    WindowEvent,            \* rows of the window event table
    ActionEvent,            \* rows of the action event table
    result                  \* the last recording operation: its argument and outcome

filterVars == <<STOP_SEQUENCES, orig_events, action_events, stop_sequence_indices,
                sequence_to_remove, num_to_remove, i, j, pc>>

insertVars == <<db, session_count, open_sessions, buffers, executed, passed, calls,
                last_result>>

recVars == <<SCRUB_ENABLED, Recording, Screenshot, WindowEvent, ActionEvent, result>>

vars == <<filterVars, insertVars, recVars>>

\* what a step of each part leaves alone
nonFilterVars == <<insertVars, recVars>>
nonInsertVars == <<filterVars, recVars>>

None == "None"

\* ---------------------------------------------------------------------
\* Bounds and input domains
\* ---------------------------------------------------------------------
MaxEvents == 3
MaxCalls == 4
MaxRecCalls == 2
MaxScreenshots == 2
MaxWindowEvents == 1
MaxActionEvents == 2

Chars == {"a", "c"}
KeyNames == {"ctrl"}

\* A key event carries either a canonical char or a canonical name; a mouse
\* event ("click") carries neither.
KeyEvents ==
    [name : {"press", "release"}, canonical_key_char : Chars, canonical_key_name : {None}]
    \cup
    [name : {"press", "release"}, canonical_key_char : {None}, canonical_key_name : KeyNames]

MouseEvents == {[name |-> "click", canonical_key_char |-> None, canonical_key_name |-> None]}

Events == KeyEvents \cup MouseEvents

EventLists == UNION {[1..n -> Events] : n \in 0..MaxEvents}

\* Keys the configured stop sequences are made of: one char and one key
\* name; "a" is a key of no stop sequence.
StopKeys == {"c", "ctrl"}

\* Non-empty stop sequences of one or two keys, and configurations of at
\* most two of them.
StopSequences ==
    {<<k>> : k \in StopKeys} \cup {<<k1, k2>> : k1 \in StopKeys, k2 \in StopKeys}

Configs == {<<>>} \cup {<<s>> : s \in StopSequences}
           \cup {<<s, t>> : s \in StopSequences, t \in StopSequences}

\* ---------------------------------------------------------------------
\* Python list access
\* ---------------------------------------------------------------------
InRange(list, k) == -Len(list) <= k /\ k < Len(list)

PyGet(list, k) == IF k >= 0 THEN list[k + 1] ELSE list[Len(list) + k + 1]

PyIn(x, list) == \E k \in 1..Len(list) : list[k] = x

\* list with its last n elements popped (n <= Len(list))
PopN(list, n) == SubSeq(list, 1, Len(list) - n)

\* ---------------------------------------------------------------------
\* Module state: the batch size, the session and the buffers
\* ---------------------------------------------------------------------
BATCH_SIZE_Doubled == 1 + 1

\* line 25
BATCH_SIZE == 1

\* lines 28-32
BufferNames ==
    {"action_events", "screenshots", "window_events", "performance_stats", "memory_stats"}

\* lines 27-32: the module as imported
ModuleInit ==
    /\ db = 1
    /\ session_count = 1
    /\ open_sessions = {1}
    /\ buffers = [b \in BufferNames |-> <<>>]
    /\ executed = <<>>
    /\ passed = <<>>
    /\ calls = 0
    /\ last_result = "ok"

\* the filter has not been called
FilterIdle ==
    /\ STOP_SEQUENCES = <<>>
    /\ orig_events = <<>>
    /\ action_events = <<>>
    /\ stop_sequence_indices = <<>>
    /\ sequence_to_remove = -1
    /\ num_to_remove = 0
    /\ i = 0
    /\ j = -1
    /\ pc = "idle"

\* a column holding None, and the id returned for no row
NoId == 0

NoResult ==
    [op |-> "none", arg |-> NoId, ret |-> NoId, log |-> "none", message |-> "none",
     scrubbed |-> NoId]

\* an empty database and no recording operation called
RecIdle ==
    /\ SCRUB_ENABLED = FALSE
    /\ Recording = {}
    /\ Screenshot = {}
    /\ WindowEvent = {}
    /\ ActionEvent = {}
    /\ result = NoResult

\* ---------------------------------------------------------------------
\* filter_stop_sequences
\* ---------------------------------------------------------------------
FilterInit ==
    /\ ModuleInit
    /\ RecIdle
    /\ STOP_SEQUENCES \in Configs
    /\ orig_events \in EventLists
    /\ action_events = orig_events
    /\ stop_sequence_indices = <<>>
    /\ sequence_to_remove = -1
    /\ num_to_remove = 0
    /\ i = 0
    /\ j = -1
    /\ pc = "start"

\* the ctrl c test with both events required to be presses
EndsWithCtrlCPressOnly(events) ==
    /\ Len(events) >= 2
    /\ PyGet(events, -1).canonical_key_char = "c"
    /\ PyGet(events, -1).name = "press"
    /\ PyGet(events, -2).canonical_key_name = "ctrl"
    /\ PyGet(events, -2).name = "press"

\* lines 301-305: the list ends with ..., ctrl, c
EndsWithCtrlC(events) ==
    /\ Len(events) >= 2
    /\ PyGet(events, -1).canonical_key_char = "c"
    /\ PyGet(events, -2).canonical_key_name = "ctrl"

\* lines 301-310: ctrl c is checked first; both events are popped
RemoveCtrlC ==
    /\ UNCHANGED nonFilterVars
    /\ pc = "start"
    /\ EndsWithCtrlC(action_events)
    /\ action_events' = PopN(action_events, 2)
    /\ pc' = "done"
    /\ UNCHANGED <<STOP_SEQUENCES, orig_events, stop_sequence_indices,
                   sequence_to_remove, num_to_remove, i, j>>

\* lines 315-324: the locals are initialised and the outer loop is entered
InitScan ==
    /\ UNCHANGED nonFilterVars
    /\ pc = "start"
    /\ ~EndsWithCtrlC(action_events)
    /\ stop_sequence_indices' =
           [k \in 1..Len(STOP_SEQUENCES) |-> Len(STOP_SEQUENCES[k]) - 1]
    /\ sequence_to_remove' = -1
    /\ num_to_remove' = 0
    /\ i' = 0
    /\ j' = Len(action_events) - 1
    /\ pc' = IF Len(STOP_SEQUENCES) = 0 THEN "remove" ELSE "scan"
    /\ UNCHANGED <<STOP_SEQUENCES, orig_events, action_events>>

\* lines 327-332: the event's char or name equals the key
KeyMatches(event, key) ==
    \/ event.canonical_key_char = key
    \/ event.canonical_key_name = key

\* lines 336-339: the event's char or name occurs in the sequence
KeyInSequence(event, sequence) ==
    \/ PyIn(event.canonical_key_char, sequence)
    \/ PyIn(event.canonical_key_name, sequence)

CurSequence == PyGet(STOP_SEQUENCES, i)
CurIndex == PyGet(stop_sequence_indices, i)
CurEvent == PyGet(action_events, j)

InInnerLoop == pc = "scan" /\ j >= 0

\* lines 327-331: STOP_SEQUENCES[i][stop_sequence_indices[i]] is evaluated
\* first, for every event; an index below -len raises IndexError
ScanIndexError ==
    /\ UNCHANGED nonFilterVars
    /\ InInnerLoop
    /\ ~InRange(CurSequence, CurIndex)
    /\ pc' = "error"
    /\ UNCHANGED <<STOP_SEQUENCES, orig_events, action_events, stop_sequence_indices,
                   sequence_to_remove, num_to_remove, i, j>>

\* lines 327-335: a press of the key at the match position
ScanPress ==
    /\ UNCHANGED nonFilterVars
    /\ InInnerLoop
    /\ InRange(CurSequence, CurIndex)
    /\ KeyMatches(CurEvent, PyGet(CurSequence, CurIndex))
    /\ CurEvent.name = "press"
    /\ stop_sequence_indices' =
           [stop_sequence_indices EXCEPT ![i + 1] = CurIndex - 1]
    /\ num_to_remove' = num_to_remove + 1
    /\ j' = j - 1
    /\ UNCHANGED <<STOP_SEQUENCES, orig_events, action_events, sequence_to_remove, i, pc>>

\* lines 336-342: a release of any key of the sequence
ScanRelease ==
    /\ UNCHANGED nonFilterVars
    /\ InInnerLoop
    /\ InRange(CurSequence, CurIndex)
    /\ ~(KeyMatches(CurEvent, PyGet(CurSequence, CurIndex)) /\ CurEvent.name = "press")
    /\ CurEvent.name = "release"
    /\ KeyInSequence(CurEvent, CurSequence)
    /\ num_to_remove' = num_to_remove + 1
    /\ j' = j - 1
    /\ UNCHANGED <<STOP_SEQUENCES, orig_events, action_events, stop_sequence_indices,
                   sequence_to_remove, i, pc>>

\* lines 343-345: anything else leaves the inner loop
ScanBreak ==
    /\ UNCHANGED nonFilterVars
    /\ InInnerLoop
    /\ InRange(CurSequence, CurIndex)
    /\ ~(KeyMatches(CurEvent, PyGet(CurSequence, CurIndex)) /\ CurEvent.name = "press")
    /\ ~(CurEvent.name = "release" /\ KeyInSequence(CurEvent, CurSequence))
    /\ pc' = "check"
    /\ UNCHANGED <<STOP_SEQUENCES, orig_events, action_events, stop_sequence_indices,
                   sequence_to_remove, num_to_remove, i, j>>

\* line 324: the range is exhausted
ScanExhausted ==
    /\ UNCHANGED nonFilterVars
    /\ pc = "scan"
    /\ j < 0
    /\ pc' = "check"
    /\ UNCHANGED <<STOP_SEQUENCES, orig_events, action_events, stop_sequence_indices,
                   sequence_to_remove, num_to_remove, i, j>>

\* the completion test taken one position early
CompletedOffByOne(index) == index <= 0

\* line 347: the sequence counts as completed
Completed(index) == index = -1

\* lines 347-351 and the next iteration of line 322
CheckCompleted ==
    /\ UNCHANGED nonFilterVars
    /\ pc = "check"
    /\ IF Completed(CurIndex)
       THEN /\ sequence_to_remove' = i
            /\ pc' = "remove"
            /\ UNCHANGED <<i, j>>
       ELSE /\ i' = i + 1
            /\ j' = Len(action_events) - 1
            /\ pc' = IF i + 1 < Len(STOP_SEQUENCES) THEN "scan" ELSE "remove"
            /\ UNCHANGED sequence_to_remove
    /\ UNCHANGED <<STOP_SEQUENCES, orig_events, action_events, stop_sequence_indices,
                   num_to_remove>>

\* line 353
ShouldRemove(index) == index # -1

\* lines 353-356: num_to_remove pops; a pop from the emptied list raises
\* IndexError after the list has been emptied
RemoveSequence ==
    /\ UNCHANGED nonFilterVars
    /\ pc = "remove"
    /\ IF ~ShouldRemove(sequence_to_remove)
       THEN /\ pc' = "done"
            /\ UNCHANGED action_events
       ELSE IF num_to_remove <= Len(action_events)
       THEN /\ action_events' = PopN(action_events, num_to_remove)
            /\ pc' = "done"
       ELSE /\ action_events' = <<>>
            /\ pc' = "error"
    /\ UNCHANGED <<STOP_SEQUENCES, orig_events, stop_sequence_indices,
                   sequence_to_remove, num_to_remove, i, j>>

FilterNext ==
    \/ RemoveCtrlC
    \/ InitScan
    \/ ScanIndexError
    \/ ScanPress
    \/ ScanRelease
    \/ ScanBreak
    \/ ScanExhausted
    \/ CheckCompleted
    \/ RemoveSequence

SpecFilter == FilterInit /\ [][FilterNext]_vars

\* ---------------------------------------------------------------------
\* _insert, the insert_* functions and new_session
\* ---------------------------------------------------------------------
\* lines 52-72 with a buffer given. columns_ok: every key of event_data is a
\* column of the table (line 60 asserts it). The whole buffer is executed
\* and committed on the global session once it holds BATCH_SIZE rows.
_insert(columns_ok, row, buffer) ==
    IF ~columns_ok
    THEN /\ last_result' = "AssertionError"
         /\ UNCHANGED <<buffers, executed, passed>>
    ELSE LET appended == Append(buffers[buffer], row) IN
         /\ IF Len(appended) >= BATCH_SIZE
            THEN /\ executed' = executed \o
                        [k \in 1..Len(appended) |->
                            [row |-> appended[k], session |-> db, newest |-> session_count]]
                 /\ buffers' = [buffers EXCEPT ![buffer] = <<>>]
            ELSE /\ buffers' = [buffers EXCEPT ![buffer] = appended]
                 /\ UNCHANGED executed
         /\ passed' = Append(passed, row)
         /\ last_result' = "ok"

\* the row a call builds: its table and the number of the call
Row(table) == [table |-> table, call |-> calls + 1]

\* lines 75-91; event_data is the caller's and may hold unknown keys
insert_action_event ==
    /\ UNCHANGED nonInsertVars
    /\ calls < MaxCalls
    /\ \E columns_ok \in BOOLEAN : _insert(columns_ok, Row("ActionEvent"), "action_events")
    /\ calls' = calls + 1
    /\ UNCHANGED <<db, session_count, open_sessions>>

\* lines 94-110
insert_screenshot ==
    /\ UNCHANGED nonInsertVars
    /\ calls < MaxCalls
    /\ \E columns_ok \in BOOLEAN : _insert(columns_ok, Row("Screenshot"), "screenshots")
    /\ calls' = calls + 1
    /\ UNCHANGED <<db, session_count, open_sessions>>

\* lines 113-131
insert_window_event ==
    /\ UNCHANGED nonInsertVars
    /\ calls < MaxCalls
    /\ \E columns_ok \in BOOLEAN : _insert(columns_ok, Row("WindowEvent"), "window_events")
    /\ calls' = calls + 1
    /\ UNCHANGED <<db, session_count, open_sessions>>

\* lines 134-155; the dict is built from the table's own columns
insert_perf_stat ==
    /\ UNCHANGED nonInsertVars
    /\ calls < MaxCalls
    /\ _insert(TRUE, Row("PerformanceStat"), "performance_stats")
    /\ calls' = calls + 1
    /\ UNCHANGED <<db, session_count, open_sessions>>

\* lines 175-185
insert_memory_stat ==
    /\ UNCHANGED nonInsertVars
    /\ calls < MaxCalls
    /\ _insert(TRUE, Row("MemoryStat"), "memory_stats")
    /\ calls' = calls + 1
    /\ UNCHANGED <<db, session_count, open_sessions>>

\* the current session left open
CloseNothing(open, current) == open

\* lines 431-432: db.close()
CloseCurrent(open, current) == open \ {current}

\* lines 424-433; a Session object is truthy, so the current one is closed
NewSessionEffect ==
    /\ open_sessions' = CloseCurrent(open_sessions, db) \cup {session_count + 1}
    /\ db' = session_count + 1
    /\ session_count' = session_count + 1

new_session ==
    /\ UNCHANGED nonInsertVars
    /\ calls < MaxCalls
    /\ NewSessionEffect
    /\ calls' = calls + 1
    /\ last_result' = "ok"
    /\ UNCHANGED <<buffers, executed, passed>>

InsertInit == ModuleInit /\ FilterIdle /\ RecIdle

InsertNext ==
    \/ insert_action_event
    \/ insert_screenshot
    \/ insert_window_event
    \/ insert_perf_stat
    \/ insert_memory_stat
    \/ new_session

SpecInsert == InsertInit /\ [][InsertNext]_vars

\* ---------------------------------------------------------------------
\* Recordings: get_recording_by_id, scrub_recording, the /scrub route and
\* copy_recording
\* ---------------------------------------------------------------------
RecordingIds == 1..3

Timestamp(k) == 100 + k

\* A database: the recordings with the ids in ids (none of them a copy), and
\* the screenshots, window events and action events of one of them, owner.
\* Each action event refers to one of the owner's screenshots and window
\* events, or to none (post_process_events, lines 455-475).
RecInit ==
    /\ ModuleInit
    /\ FilterIdle
    /\ SCRUB_ENABLED \in BOOLEAN
    /\ result = NoResult
    /\ \E ids \in SUBSET RecordingIds :
        /\ Recording = {[id |-> r, original_recording_id |-> NoId,
                         task_description |-> "raw"] : r \in ids}
        /\ IF ids = {}
           THEN Screenshot = {} /\ WindowEvent = {} /\ ActionEvent = {}
           ELSE \E owner \in ids, nShots \in 0..MaxScreenshots,
                   nWins \in 0..MaxWindowEvents, nActs \in 0..MaxActionEvents :
                \E refs \in [1..nActs -> (0..nShots) \X (0..nWins)] :
                    /\ Screenshot = {[id |-> k, recording_id |-> owner,
                                      timestamp |-> Timestamp(k)] : k \in 1..nShots}
                    /\ WindowEvent = {[id |-> k, recording_id |-> owner,
                                       timestamp |-> Timestamp(k)] : k \in 1..nWins}
                    /\ ActionEvent = {[id |-> k, recording_id |-> owner,
                                       timestamp |-> Timestamp(k),
                                       screenshot_id |-> refs[k][1],
                                       window_event_id |-> refs[k][2]] : k \in 1..nActs}

Maximum(S) == CHOOSE x \in S : \A y \in S : x >= y

\* the id the database gives the next row of a table
NextId(table) == IF table = {} THEN 1 ELSE Maximum({row.id : row \in table}) + 1

\* lines 231-237: the recording with that id, or None
get_recording_by_id(recording_id) == {r \in Recording : r.id = recording_id}

\* line 544: the id scrub_recording looks up
ScrubLookupId == 2

\* lines 532-560. The scrubbed task description is assigned to the recording
\* found; the scrubbed event dicts are local and only printed.
ScrubEffect(op, recording_id, message) ==
    IF ~SCRUB_ENABLED
    THEN /\ result' = [op |-> op, arg |-> recording_id, ret |-> NoId,
                       log |-> "Scrubbing is not enabled.", message |-> message,
                       scrubbed |-> NoId]
         /\ UNCHANGED Recording
    ELSE LET found == get_recording_by_id(ScrubLookupId) IN
         IF found = {}
         THEN /\ result' = [op |-> op, arg |-> recording_id, ret |-> NoId,
                            log |-> "not found", message |-> message,
                            scrubbed |-> NoId]
              /\ UNCHANGED Recording
         ELSE LET recording == CHOOSE r \in found : TRUE IN
              /\ Recording' = (Recording \ {recording}) \cup
                     {[recording EXCEPT !.task_description = "scrubbed"]}
              /\ result' = [op |-> op, arg |-> recording_id, ret |-> NoId,
                            log |-> "none", message |-> message,
                            scrubbed |-> recording.id]

\* crud.scrub_recording called with a recording id
scrub_recording ==
    /\ UNCHANGED <<filterVars, db, session_count, open_sessions, buffers, executed,
                   passed, last_result>>
    /\ calls < MaxRecCalls
    /\ calls' = calls + 1
    /\ \E recording_id \in RecordingIds : ScrubEffect("scrub_recording", recording_id, "none")
    /\ UNCHANGED <<SCRUB_ENABLED, Screenshot, WindowEvent, ActionEvent>>

\* recordings.py lines 49-56: the /scrub/{recording_id} route
RecordingsAPI_scrub_recording ==
    /\ UNCHANGED <<filterVars, buffers, executed, passed, last_result>>
    /\ calls < MaxRecCalls
    /\ calls' = calls + 1
    /\ NewSessionEffect
    /\ \E recording_id \in RecordingIds :
           IF get_recording_by_id(recording_id) = {}
           THEN /\ result' = [op |-> "route", arg |-> recording_id, ret |-> NoId,
                              log |-> "none", message |-> "Recording not found",
                              scrubbed |-> NoId]
                /\ UNCHANGED Recording
           ELSE ScrubEffect("route", recording_id, "abc")
    /\ UNCHANGED <<SCRUB_ENABLED, Screenshot, WindowEvent, ActionEvent>>

\* rows of a table that belong to a recording (recording.screenshots, ...)
RowsOf(table, recording_id) == {row \in table : row.recording_id = recording_id}

\* position of a row among rows, in timestamp order, from 0
Rank(row, rows) == Cardinality({other \in rows : other.timestamp < row.timestamp})

\* lines 493-510: old id -> new id, the copies taking the next ids in order
OldToNewIdMap(table, rows) ==
    [old \in {row.id : row \in rows} |->
        NextId(table) + Rank(CHOOSE row \in rows : row.id = old, rows)]

\* dict.get: None for a key the dict does not hold
DictGet(map, key) == IF key \in DOMAIN map THEN map[key] ELSE NoId

\* the action events the loop of lines 512-525 reaches: the first only
\* (line 525 returns inside the loop)
ActionEventsCopied(rows) == {row \in rows : Rank(row, rows) = 0}

\* lines 478-529, no exception raised
copy_recording ==
    /\ UNCHANGED <<filterVars, db, session_count, open_sessions, buffers, executed,
                   passed, last_result>>
    /\ calls < MaxRecCalls
    /\ calls' = calls + 1
    /\ \E recording \in Recording :
        LET new_id == NextId(Recording)
            shots == RowsOf(Screenshot, recording.id)
            wins == RowsOf(WindowEvent, recording.id)
            acts == RowsOf(ActionEvent, recording.id)
            old_to_new_screenshot_id_map == OldToNewIdMap(Screenshot, shots)
            old_to_new_window_event_id_map == OldToNewIdMap(WindowEvent, wins)
            copied == ActionEventsCopied(acts)
        IN
        /\ Recording' = Recording \cup
               {[recording EXCEPT !.id = new_id, !.original_recording_id = recording.id]}
        /\ Screenshot' = Screenshot \cup
               {[row EXCEPT !.id = old_to_new_screenshot_id_map[row.id],
                            !.recording_id = new_id] : row \in shots}
        /\ WindowEvent' = WindowEvent \cup
               {[row EXCEPT !.id = old_to_new_window_event_id_map[row.id],
                            !.recording_id = new_id] : row \in wins}
        /\ ActionEvent' = ActionEvent \cup
               {[row EXCEPT
                    !.id = NextId(ActionEvent) + Rank(row, copied),
                    !.recording_id = new_id,
                    !.screenshot_id =
                        DictGet(old_to_new_screenshot_id_map, row.screenshot_id),
                    !.window_event_id =
                        DictGet(old_to_new_window_event_id_map, row.window_event_id)]
                : row \in copied}
        /\ result' = [op |-> "copy_recording", arg |-> recording.id,
                      ret |-> IF copied = {} THEN NoId ELSE new_id,
                      log |-> "none", message |-> "none", scrubbed |-> NoId]
    /\ UNCHANGED SCRUB_ENABLED

RecNext ==
    \/ scrub_recording
    \/ RecordingsAPI_scrub_recording
    \/ copy_recording

SpecRec == RecInit /\ [][RecNext]_vars

\* ---------------------------------------------------------------------
\* Properties of filter_stop_sequences
\* ---------------------------------------------------------------------
\* the function returned after popping events for a configured sequence
\* (lines 353-356)
RemovedForSequence == pc = "done" /\ sequence_to_remove # -1

Suffix(list, n) == SubSeq(list, Len(list) - n + 1, Len(list))

IsPrefix(short, long) ==
    Len(short) <= Len(long) /\ short = SubSeq(long, 1, Len(short))

Presses(run) == SelectSeq(run, LAMBDA e : e.name = "press")

\* run is one occurrence of sequence: its presses spell the sequence, and
\* every other event of it is a release of a key of the sequence
IsOccurrence(run, sequence) ==
    /\ \A k \in 1..Len(run) :
           \/ run[k].name = "press"
           \/ run[k].name = "release" /\ KeyInSequence(run[k], sequence)
    /\ Len(Presses(run)) = Len(sequence)
    /\ \A k \in 1..Len(sequence) : KeyMatches(Presses(run)[k], sequence[k])

OccurrenceLengths(events, sequence) ==
    {n \in 1..Len(events) : IsOccurrence(Suffix(events, n), sequence)}

CompletesAtTail(events, sequence) == OccurrenceLengths(events, sequence) # {}

Minimum(S) == CHOOSE x \in S : \A y \in S : x <= y

\* length of the minimal tail run that is an occurrence of sequence
MinOccurrence(events, sequence) == Minimum(OccurrenceLengths(events, sequence))

CompletingIndices ==
    {k \in 1..Len(STOP_SEQUENCES) : CompletesAtTail(orig_events, STOP_SEQUENCES[k])}

\* the list ends with the ctrl, c pair (stated apart from the model's test)
CtrlCTail(events) ==
    /\ Len(events) >= 2
    /\ events[Len(events)].canonical_key_char = "c"
    /\ events[Len(events) - 1].canonical_key_name = "ctrl"

\* C1: whenever events are removed for a configured stop sequence S (not the
\* ctrl c path), the removed events are exactly the minimal tail run that is
\* one occurrence of S; nothing before that run is removed.
C1_RemovesExactlyMinimalRun ==
    (RemovedForSequence /\ ~CtrlCTail(orig_events)) =>
        LET S == PyGet(STOP_SEQUENCES, sequence_to_remove) IN
        /\ CompletesAtTail(orig_events, S)
        /\ action_events = PopN(orig_events, MinOccurrence(orig_events, S))

\* C2: when the tail of the list is a completed occurrence of a configured
\* stop sequence, the filter has removed that occurrence when it returns,
\* whatever precedes it (lists ending with the ctrl, c pair are left to the
\* ctrl c case).
C2_CompletedOccurrenceRemoved ==
    (pc = "done" /\ ~CtrlCTail(orig_events) /\ CompletingIndices # {}) =>
        \E k \in CompletingIndices :
            /\ IsPrefix(action_events, orig_events)
            /\ Len(action_events) <=
                   Len(orig_events) - MinOccurrence(orig_events, STOP_SEQUENCES[k])

\* C3: if no configured stop sequence completes at the tail and the list does
\* not end with the ctrl, c pair, the list is never modified.
C3_NoCompletionLeavesListUnmodified ==
    (~CtrlCTail(orig_events) /\ CompletingIndices = {}) =>
        action_events = orig_events

\* C3 witness: two candidates were scanned and events were counted, no
\* sequence completes, and the function returned the list as it was.
C3_Witness ==
    /\ pc = "done"
    /\ ~CtrlCTail(orig_events)
    /\ CompletingIndices = {}
    /\ Len(STOP_SEQUENCES) = 2
    /\ num_to_remove >= 2
    /\ Len(orig_events) = 3
    /\ action_events = orig_events

\* C4: when more than one (different) configured stop sequence completes at the tail,
\* the one that comes first in the configuration is the one removed when
\* the filter returns, and the events removed are those of its occurrence.
C4_FirstConfiguredSequenceWins ==
    (/\ pc = "done"
     /\ ~CtrlCTail(orig_events)
     /\ \E k1, k2 \in CompletingIndices : STOP_SEQUENCES[k1] # STOP_SEQUENCES[k2]) =>
        LET first == Minimum(CompletingIndices) IN
        /\ sequence_to_remove = first - 1
        /\ action_events =
               PopN(orig_events, MinOccurrence(orig_events, STOP_SEQUENCES[first]))

\* one iteration of the inner loop consumed the event: it is counted for
\* removal, the scan goes on, and the match position stays
ReleaseConsumed ==
    /\ num_to_remove' = num_to_remove + 1
    /\ j' = j - 1
    /\ pc' = "scan"
    /\ stop_sequence_indices' = stop_sequence_indices

\* the scan for the current sequence ended at this event
ScanEnded == pc' # "scan" /\ num_to_remove' = num_to_remove /\ j' = j

\* C5: during the scan for S a release is consumed iff its key is a member
\* of S, whatever the match position, and consuming it never advances the
\* match position; a release of a key not in S, or a press that is not the
\* key at the match position, ends the scan for S.
C5_ReleaseConsumedIffKeyInSequence ==
    [][InInnerLoop =>
        /\ CurEvent.name = "release" =>
              /\ KeyInSequence(CurEvent, CurSequence) <=> ReleaseConsumed
              /\ ~KeyInSequence(CurEvent, CurSequence) => ScanEnded
        /\ (/\ CurEvent.name = "press"
            /\ InRange(CurSequence, CurIndex)
            /\ ~KeyMatches(CurEvent, PyGet(CurSequence, CurIndex))) => ScanEnded
      ]_filterVars

\* C6: a list of at least two events ending with ctrl, c loses exactly those
\* two events; no configured stop sequence is examined, whatever the
\* configuration holds.
C6_CtrlCRemovedFirst ==
    CtrlCTail(orig_events) =>
        /\ pc \in {"start", "done"}
        /\ pc = "start" => action_events = orig_events
        /\ pc = "done" => action_events = SubSeq(orig_events, 1, Len(orig_events) - 2)
        /\ stop_sequence_indices = <<>>
        /\ num_to_remove = 0
        /\ sequence_to_remove = -1

\* C6 witness: the list ends with ctrl, c, a configured sequence completes at
\* that tail too, and the function returned with only the pair removed.
C6_Witness ==
    /\ pc = "done"
    /\ CtrlCTail(orig_events)
    /\ Len(orig_events) = 3
    /\ CompletingIndices # {}
    /\ action_events = <<orig_events[1]>>

\* ---------------------------------------------------------------------
\* Properties of the buffers and the session
\* ---------------------------------------------------------------------
ExecutedRows == [k \in 1..Len(executed) |-> executed[k].row]

\* C7: with BATCH_SIZE = 1 every buffer is empty after every insert_* call,
\* and the rows passed so far have each been executed and committed exactly
\* once, in call order.
C7_BatchingDisabled ==
    /\ \A b \in BufferNames : buffers[b] = <<>>
    /\ ExecutedRows = passed
    /\ \A k1, k2 \in 1..Len(executed) : k1 # k2 => executed[k1].row # executed[k2].row

\* C7 witness: rows of different tables have been inserted, with a rejected
\* call among them.
C7_Witness ==
    /\ Len(passed) >= 3
    /\ \E k1, k2 \in 1..Len(passed) : passed[k1].table # passed[k2].table
    /\ \E k \in 1..Len(passed) : passed[k].call # k
    /\ ExecutedRows = passed

\* C8: exactly one session is open, the one the module holds, which is the
\* newest created; every session held before has been closed; and every
\* row was executed on the session that was the newest at its call.
C8_SingleGlobalSession ==
    /\ open_sessions = {db}
    /\ db = session_count
    /\ \A s \in 1..session_count : s # db => s \notin open_sessions
    /\ \A k \in 1..Len(executed) : executed[k].session = executed[k].newest

\* C8 witness: new_session was called twice with rows inserted before and
\* after, on different sessions.
C8_Witness ==
    /\ session_count >= 3
    /\ open_sessions = {session_count}
    /\ \E k1, k2 \in 1..Len(executed) :
           /\ k1 < k2
           /\ executed[k1].session < executed[k2].session
           /\ executed[k2].session = session_count

\* ---------------------------------------------------------------------
\* Properties of scrub_recording and copy_recording
\* ---------------------------------------------------------------------
HasRecording(recording_id) == \E r \in Recording : r.id = recording_id

\* C9: scrub_recording(recording_id), with scrubbing enabled, scrubs the
\* recording with that id, and logs 'not found' and scrubs nothing when
\* there is none; the route answers 'Recording not found' without scrubbing
\* for an id with no recording and scrubs the recording of an existing id.
C9_ScrubsRequestedRecording ==
    /\ (result.op = "scrub_recording" /\ SCRUB_ENABLED) =>
           IF HasRecording(result.arg)
           THEN result.scrubbed = result.arg
           ELSE result.scrubbed = NoId /\ result.log = "not found"
    /\ result.op = "route" =>
           IF HasRecording(result.arg)
           THEN SCRUB_ENABLED => result.scrubbed = result.arg
           ELSE result.scrubbed = NoId /\ result.message = "Recording not found"

\* the id of the copy, in the rows of new_id, of the row old_id of table
\* (None for None)
CopyIdOf(table, old_id, new_id) ==
    IF old_id = NoId
    THEN {NoId}
    ELSE {copy.id : copy \in
            {c \in RowsOf(table, new_id) :
                \E row \in table : row.id = old_id /\ row.timestamp = c.timestamp}}

\* C10: copy_recording returns a new recording whose original_recording_id
\* is the source's id; every screenshot, window event and action event of
\* the source has a copy in the new recording, and each copied action event
\* refers to the copies of the screenshot and window event of the original.
C10_CopyReturnsCompleteCopy ==
    result.op = "copy_recording" =>
        /\ result.ret # NoId
        /\ \E r \in Recording :
               r.id = result.ret /\ r.original_recording_id = result.arg
        /\ \A row \in RowsOf(Screenshot, result.arg) :
               \E copy \in RowsOf(Screenshot, result.ret) : copy.timestamp = row.timestamp
        /\ \A row \in RowsOf(WindowEvent, result.arg) :
               \E copy \in RowsOf(WindowEvent, result.ret) : copy.timestamp = row.timestamp
        /\ \A row \in RowsOf(ActionEvent, result.arg) :
               \E copy \in RowsOf(ActionEvent, result.ret) :
                   /\ copy.timestamp = row.timestamp
                   /\ copy.screenshot_id \in
                          CopyIdOf(Screenshot, row.screenshot_id, result.ret)
                   /\ copy.window_event_id \in
                          CopyIdOf(WindowEvent, row.window_event_id, result.ret)

\* ---------------------------------------------------------------------
\* Normal return of filter_stop_sequences
\* ---------------------------------------------------------------------
\* C11: for every event list and every configuration of non-empty stop
\* sequences the filter returns normally: the match position never indexes
\* outside the candidate sequence, the number of events to remove never
\* exceeds the length of the list (no pop from an empty list), no IndexError
\* is raised, and the list is always a prefix of the original list.
C11_FilterReturnsNormally ==
    /\ pc # "error"
    /\ InInnerLoop => InRange(CurSequence, CurIndex)
    /\ (pc = "remove" /\ ShouldRemove(sequence_to_remove)) =>
           num_to_remove <= Len(action_events)
    /\ IsPrefix(action_events, orig_events)

====
